---- MODULE Spec2Model ----
(***************************************************************************)
(* EnterpriseCouponFormView                                                *)
(* (ecommerce/static/js/views/enterprise_coupon_form_view.js).             *)
(*                                                                         *)
(* The view is a Backbone form view: stickit bindings write the model,     *)
(* model change events run the listeners registered by                     *)
(* setupToggleListeners, and fetchEnterpriseCustomerCatalogs issues an     *)
(* asynchronous collection fetch whose success/error continuation runs    *)
(* later on the single UI thread.                                          *)
(***************************************************************************)
EXTENDS Integers, Sequences, FiniteSets, TLC

VARIABLES
    model,            \* this.model.attributes
    initAttributes,   \* this._initAttributes
    listening,        \* setupToggleListeners has registered the observers
    catalogs,         \* ecommerce.coupons.enterprise_customer_catalogs
    catalogDisabled,  \* the 'disabled' attribute of select[name=enterprise_customer_catalog]
    pending,          \* catalog fetches issued and not yet answered, oldest first
    lastOp,           \* the handler that ran last
    invoked,          \* how often each listener callback ran in the last handler
    threw,            \* the last handler let an exception propagate
    ret,              \* the value the last handler returned
    bindFn,           \* binding transform applied last
    bindIn,           \* its argument
    bindOut           \* its result

view == <<model, initAttributes, listening, catalogs, catalogDisabled, pending,
          lastOp, invoked, threw, ret>>
bind == <<bindFn, bindIn, bindOut>>
vars == <<model, initAttributes, listening, catalogs, catalogDisabled, pending,
          lastOp, invoked, threw, ret, bindFn, bindIn, bindOut>>

----------------------------------------------------------------------------
(* Bounds *)

\* longest string / array / key list among the JavaScript values
MaxStrLen == 2
\* most catalog fetches outstanding at once
MaxPending == 2

----------------------------------------------------------------------------
(* JavaScript values: a type tag and a payload of characters                *)
(* (the characters of a string, the elements of an array, the keys of an   *)
(* object, the digit of a number, the bit of a boolean).                   *)

Chars == {"a", "b"}
Payloads == UNION {[1..n -> Chars] : n \in 0..MaxStrLen}

Undefined == [t |-> "undefined", v |-> <<>>]
Null == [t |-> "null", v |-> <<>>]
Str(s) == [t |-> "string", v |-> s]

Strings == {Str(s) : s \in Payloads}
JSValues ==
    {Undefined, Null}
        \cup Strings
        \cup {[t |-> "array", v |-> s] : s \in Payloads}
        \cup {[t |-> "object", v |-> s] : s \in Payloads}
        \cup {[t |-> ty, v |-> <<d>>] : ty \in {"number", "boolean"}, d \in {"0", "1"}}

\* _.isUndefined, _.isNull, _.isString
IsUndefined(val) == val.t = "undefined"
IsNull(val) == val.t = "null"
IsString(val) == val.t = "string"

\* _.isEmpty: null/undefined are empty; a string or an array is empty when its
\* length is 0; anything else is empty when it has no own enumerable keys
\* (a number and a boolean have none).
IsEmpty(val) ==
    CASE val.t \in {"undefined", "null"} -> TRUE
      [] val.t \in {"string", "array"} -> Len(val.v) = 0
      [] val.t = "object" -> Len(val.v) = 0
      [] OTHER -> TRUE

----------------------------------------------------------------------------
(* couponBindings *)

\* An enterprise_customer value: undefined, null or the object {id, name}.
ECUndefined == [t |-> "undefined", id |-> Undefined, name |-> Undefined]
ECNull == [t |-> "null", id |-> Undefined, name |-> Undefined]
Customer(id, name) == [t |-> "object", id |-> id, name |-> name]

\* ecommerce.coupons.enterprise_customers: the options of the customer select
EnterpriseCustomers == {Customer(Str(<<c>>), Str(<<c, c>>)) : c \in Chars}

\* selectOptions.defaultOption of the two selects
DefaultCustomerOption == Customer(Str(<<>>), Str(<<>>))
DefaultCatalogOption == Str(<<>>)

\* $('select[name=enterprise_customer] option:selected').text()
SelectedOptionText(val) ==
    (CHOOSE o \in EnterpriseCustomers \cup {DefaultCustomerOption} : o.id = val).name

CustomerOnGet(val) ==
    IF val.t \in {"undefined", "null"} THEN Str(<<>>) ELSE val.id

CustomerOnSet(val) == Customer(val, SelectedOptionText(val))

CatalogOnGet(val) ==
    IF IsUndefined(val) \/ IsNull(val) THEN Str(<<>>) ELSE val

CatalogOnSetKeepsEmpty(val) == IF IsString(val) THEN val ELSE Null

CatalogOnSet(val) ==
    IF ~IsEmpty(val) /\ IsString(val) THEN val ELSE Null

NotifyEmailOnSetIdentity(val) == val

NotifyEmailOnSet(val) == IF val = Str(<<>>) THEN Null ELSE val

----------------------------------------------------------------------------
(* The model's attributes and Backbone's Model.set *)

Attrs == {"enterprise_customer", "enterprise_customer_catalog", "notify_email",
          "coupon_type"}

\* model.get(a) of an attribute that is not set
AbsentOf(a) == IF a = "enterprise_customer" THEN ECUndefined ELSE Undefined
Present(x) == x.t # "undefined"

\* the attributes hash {attr: val} of model.set(attr, val)
Only(attr, val) == [a \in Attrs |-> IF a = attr THEN val ELSE AbsentOf(a)]

\* Model.set assigns every key of attrs ...
Assigned(current, attrs) ==
    [a \in Attrs |-> IF Present(attrs[a]) THEN attrs[a] ELSE current[a]]

\* ... and triggers change:<key> for each key whose value is not _.isEqual to
\* the current one, in the key order of attrs.
Changes(current, attrs) ==
    {a \in Attrs : Present(attrs[a]) /\ attrs[a] # current[a]}

\* The key orders an attributes hash can have. Only the relative order of the
\* observed attributes decides which callbacks run, so the hash's other keys
\* are put last.
ObservedAttrs == {"coupon_type", "enterprise_customer"}
KeyOrders ==
    {<<"coupon_type", "enterprise_customer", "enterprise_customer_catalog", "notify_email">>,
     <<"enterprise_customer", "coupon_type", "enterprise_customer_catalog", "notify_email">>}

----------------------------------------------------------------------------
(* The view's methods *)

Callbacks == {"toggleCouponTypeField", "fetchEnterpriseCustomerCatalogs"}
NoneInvoked == [c \in Callbacks |-> 0]

ListenersOnAnyChange ==
    [a \in Attrs |->
        IF a = "coupon_type"
        THEN <<"toggleCouponTypeField", "fetchEnterpriseCustomerCatalogs">>
        ELSE <<"fetchEnterpriseCustomerCatalogs">>]

\* setupToggleListeners: the callbacks listenTo registers per change:<attr>
Listeners ==
    [a \in Attrs |->
        CASE a = "coupon_type" -> <<"toggleCouponTypeField">>
          [] a = "enterprise_customer" -> <<"fetchEnterpriseCustomerCatalogs">>
          [] OTHER -> <<>>]

ToggleInverted(disable) == ~disable

\* toggleEnterpriseCatalogField(disable): the control's 'disabled' attribute
ToggleEnterpriseCatalogField(disable) == disable

IssueFetchAbortingPrior(p, enterpriseCustomer) == <<enterpriseCustomer>>

\* collection.fetch({data: {enterprise_customer: id}, success, error}): one more
\* request outstanding; its continuations close over enterpriseCustomer
IssueFetch(p, enterpriseCustomer) == Append(p, enterpriseCustomer)

HasNoCustomerIdInverted(enterpriseCustomer) == ~IsEmpty(enterpriseCustomer.id)

\* _.isEmpty(enterpriseCustomer.id)
HasNoCustomerId(enterpriseCustomer) == IsEmpty(enterpriseCustomer.id)

\* fetchEnterpriseCustomerCatalogs, run on model attributes m in handler state st
FetchEnterpriseCustomerCatalogs(m, st) ==
    LET enterpriseCustomer == m["enterprise_customer"]
        called == [st EXCEPT !.invoked["fetchEnterpriseCustomerCatalogs"] = @ + 1]
    IN  IF enterpriseCustomer.t \in {"undefined", "null"}
        THEN \* enterpriseCustomer.id: TypeError
             [called EXCEPT !.threw = TRUE]
        ELSE IF ~HasNoCustomerId(enterpriseCustomer)
        THEN [called EXCEPT !.pending = IssueFetch(@, enterpriseCustomer)]
        ELSE [called EXCEPT !.catalogDisabled = ToggleEnterpriseCatalogField(TRUE)]

\* a visibility toggle of the base view
ToggleField(cb, st) == [st EXCEPT !.invoked[cb] = @ + 1]

RECURSIVE RunCallbacks(_, _, _)
RunCallbacks(cbs, m, st) ==
    IF cbs = <<>> \/ st.threw
    THEN st
    ELSE RunCallbacks(
            Tail(cbs), m,
            IF Head(cbs) = "fetchEnterpriseCustomerCatalogs"
            THEN FetchEnterpriseCustomerCatalogs(m, st)
            ELSE ToggleField(Head(cbs), st))

\* trigger('change:<attr>') for each changed attribute; an exception ends it
RECURSIVE Dispatch(_, _, _)
Dispatch(events, m, st) ==
    IF events = <<>> \/ st.threw
    THEN st
    ELSE Dispatch(
            Tail(events), m,
            RunCallbacks(IF listening THEN Listeners[Head(events)] ELSE <<>>, m, st))

\* this.model.set(attrs)
ModelSet(attrs, order) ==
    LET m == Assigned(model, attrs)
        Changed(a) == a \in Changes(model, attrs)
        st == Dispatch(
                SelectSeq(order, Changed), m,
                [invoked |-> NoneInvoked, threw |-> FALSE, pending |-> pending,
                 catalogDisabled |-> catalogDisabled])
    IN  /\ Len(st.pending) <= MaxPending
        /\ model' = m
        /\ invoked' = st.invoked
        /\ threw' = st.threw
        /\ pending' = st.pending
        /\ catalogDisabled' = st.catalogDisabled

\* a set the model's validation rejects changes nothing
ModelSetRejected ==
    /\ invoked' = NoneInvoked
    /\ threw' = FALSE
    /\ UNCHANGED <<model, pending, catalogDisabled>>

EditableAttributesWithoutCatalog ==
    IF model["enterprise_customer"].t = "object"
    THEN <<"benefit_value", "category", "end_date", "enterprise_customer",
           "enterprise_customer_catalog", "notify_email", "invoice_discount_type",
           "invoice_discount_value", "invoice_number", "invoice_payment_date",
           "invoice_type", "max_uses", "note", "price", "start_date",
           "tax_deducted_source", "title", "email_domains">>
    ELSE <<"benefit_value", "category", "end_date", "enterprise_customer",
           "notify_email", "invoice_discount_type",
           "invoice_discount_value", "invoice_number", "invoice_payment_date",
           "invoice_type", "max_uses", "note", "price", "start_date",
           "tax_deducted_source", "title", "email_domains">>

\* getEditableAttributes
EditableAttributes ==
    <<"benefit_value", "category", "end_date", "enterprise_customer",
      "enterprise_customer_catalog", "notify_email", "invoice_discount_type",
      "invoice_discount_value", "invoice_number", "invoice_payment_date",
      "invoice_type", "max_uses", "note", "price", "start_date",
      "tax_deducted_source", "title", "email_domains">>

CancelAttributesWithoutCustomer ==
    [initAttributes EXCEPT !["enterprise_customer"] = ECUndefined]

\* the argument cancelButtonClicked passes to model.set
CancelAttributes == initAttributes

----------------------------------------------------------------------------
(* Initial state: the view constructed on a new or an existing coupon *)

InitialAttributes ==
    {[a \in Attrs |->
        CASE a = "enterprise_customer" -> ec
          [] a = "enterprise_customer_catalog" -> cat
          [] a = "notify_email" -> Null
          [] a = "coupon_type" -> Str(<<"a">>)]
     : ec \in {ECUndefined, ECNull} \cup EnterpriseCustomers,
       cat \in {Null, Str(<<"a">>)}}

ViewInit ==
    /\ initAttributes \in {ia \in InitialAttributes :
            ia["enterprise_customer"].t # "object"
                => ia["enterprise_customer_catalog"] = Null}
    /\ model = initAttributes
    /\ listening = FALSE
    /\ catalogs = [fetched |-> FALSE, customer |-> Undefined]
    /\ catalogDisabled \in BOOLEAN
    /\ pending = <<>>
    /\ lastOp = "initialize"
    /\ invoked = NoneInvoked
    /\ threw = FALSE
    /\ ret = <<>>

BindIdle ==
    /\ bindFn = "none"
    /\ bindIn = Undefined
    /\ bindOut = Undefined

Init == ViewInit /\ BindIdle

----------------------------------------------------------------------------
(* Handlers *)

SetupToggleListeners ==
    /\ ~listening
    /\ listening' = TRUE
    /\ lastOp' = "setupToggleListeners"
    /\ invoked' = NoneInvoked
    /\ threw' = FALSE
    /\ ret' = <<>>
    /\ UNCHANGED <<model, initAttributes, catalogs, catalogDisabled, pending>>
    /\ UNCHANGED bind

\* the user picks an option of select[name=enterprise_customer]
SelectEnterpriseCustomer ==
    \E val \in {o.id : o \in EnterpriseCustomers \cup {DefaultCustomerOption}},
       valid \in BOOLEAN :
        /\ IF valid
           THEN ModelSet(Only("enterprise_customer", CustomerOnSet(val)), <<"enterprise_customer">>)
           ELSE ModelSetRejected
        /\ lastOp' = "selectEnterpriseCustomer"
        /\ ret' = <<>>
        /\ UNCHANGED <<initAttributes, listening, catalogs>>
        /\ UNCHANGED bind

\* the user picks an option of select[name=enterprise_customer_catalog]
SelectEnterpriseCustomerCatalog ==
    \E val \in {DefaultCatalogOption, Str(<<"a">>)},
       valid \in BOOLEAN :
        /\ IF valid
           THEN ModelSet(Only("enterprise_customer_catalog", CatalogOnSet(val)), <<"enterprise_customer_catalog">>)
           ELSE ModelSetRejected
        /\ lastOp' = "selectEnterpriseCustomerCatalog"
        /\ ret' = <<>>
        /\ UNCHANGED <<initAttributes, listening, catalogs>>
        /\ UNCHANGED bind

\* the user edits input[name=notify_email]
EditNotifyEmail ==
    \E val \in {Str(<<>>), Str(<<"a">>)} :
        /\ ModelSet(Only("notify_email", NotifyEmailOnSet(val)), <<"notify_email">>)
        /\ lastOp' = "editNotifyEmail"
        /\ ret' = <<>>
        /\ UNCHANGED <<initAttributes, listening, catalogs>>
        /\ UNCHANGED bind

\* a write of coupon_type, one of the attributes the toggles observe
EditCouponType ==
    \E val \in {Str(<<"a">>), Str(<<"b">>)} :
        /\ ModelSet(Only("coupon_type", val), <<"coupon_type">>)
        /\ lastOp' = "editCouponType"
        /\ ret' = <<>>
        /\ UNCHANGED <<initAttributes, listening, catalogs>>
        /\ UNCHANGED bind

CancelButtonClicked ==
    \E order \in KeyOrders :
        /\ ModelSet(CancelAttributes, order)
        /\ lastOp' = "cancelButtonClicked"
        /\ ret' = <<>>
        /\ UNCHANGED <<initAttributes, listening, catalogs>>
        /\ UNCHANGED bind

Without(p, i) == SubSeq(p, 1, i - 1) \o SubSeq(p, i + 1, Len(p))

\* a fetch is answered: Backbone fills the collection, then calls success
FetchSuccess ==
    \E i \in DOMAIN pending :
        /\ catalogs' = [fetched |-> TRUE, customer |-> pending[i].id]
        /\ catalogDisabled' = ToggleEnterpriseCatalogField(FALSE)
        /\ pending' = Without(pending, i)
        /\ lastOp' = "fetchSuccess"
        /\ invoked' = NoneInvoked
        /\ threw' = FALSE
        /\ ret' = <<>>
        /\ UNCHANGED <<model, initAttributes, listening>>
        /\ UNCHANGED bind

\* a fetch fails: the collection is left alone and error is called
FetchError ==
    \E i \in DOMAIN pending :
        /\ catalogDisabled' = ToggleEnterpriseCatalogField(TRUE)
        /\ pending' = Without(pending, i)
        /\ lastOp' = "fetchError"
        /\ invoked' = NoneInvoked
        /\ threw' = FALSE
        /\ ret' = <<>>
        /\ UNCHANGED <<model, initAttributes, listening, catalogs>>
        /\ UNCHANGED bind

GetEditableAttributes ==
    /\ ret' = EditableAttributes
    /\ lastOp' = "getEditableAttributes"
    /\ invoked' = NoneInvoked
    /\ threw' = FALSE
    /\ UNCHANGED <<model, initAttributes, listening, catalogs, catalogDisabled, pending>>
    /\ UNCHANGED bind

Next ==
    \/ SetupToggleListeners
    \/ SelectEnterpriseCustomer
    \/ SelectEnterpriseCustomerCatalog
    \/ EditNotifyEmail
    \/ EditCouponType
    \/ CancelButtonClicked
    \/ FetchSuccess
    \/ FetchError
    \/ GetEditableAttributes

Spec == Init /\ [][Next]_vars

----------------------------------------------------------------------------
(* The binding transforms on their own, applied to any JavaScript value *)

BindInit ==
    /\ ViewInit
    /\ catalogDisabled = FALSE
    /\ initAttributes["enterprise_customer"] = ECUndefined
    /\ bindFn = "none"
    /\ bindIn \in JSValues
    /\ bindOut = Undefined

ApplyCatalogOnSet ==
    /\ bindFn' = "enterprise_customer_catalog.onSet"
    /\ bindOut' = CatalogOnSet(bindIn)
    /\ UNCHANGED bindIn
    /\ UNCHANGED view

ApplyCatalogOnGet ==
    /\ bindFn' = "enterprise_customer_catalog.onGet"
    /\ bindOut' = CatalogOnGet(bindIn)
    /\ UNCHANGED bindIn
    /\ UNCHANGED view

ApplyNotifyEmailOnSet ==
    /\ bindFn' = "notify_email.onSet"
    /\ bindOut' = NotifyEmailOnSet(bindIn)
    /\ UNCHANGED bindIn
    /\ UNCHANGED view

BindNext ==
    \/ ApplyCatalogOnSet
    \/ ApplyCatalogOnGet
    \/ ApplyNotifyEmailOnSet

SpecBindings == BindInit /\ [][BindNext]_vars

----------------------------------------------------------------------------
(* Properties *)

IsPrefix(p, q) == Len(p) <= Len(q) /\ SubSeq(q, 1, Len(p)) = p

\* C1: whenever fetchEnterpriseCustomerCatalogs is called with the model's
\* enterprise_customer.id = v, a fetch filtered by v is issued iff v is not the
\* empty string; when v is empty no fetch is issued and the catalog select is
\* disabled at once.
C1_FetchIffCustomerId ==
    [][(/\ invoked'["fetchEnterpriseCustomerCatalogs"] = 1
        /\ model'["enterprise_customer"].t = "object")
        => LET ec == model'["enterprise_customer"]
           IN  /\ (ec.id.v # <<>>) <=> (pending' = Append(pending, ec))
               /\ (ec.id.v = <<>>) => (pending' = pending /\ catalogDisabled')]_vars

\* the customer was cleared while an earlier fetch is still outstanding: the
\* call issued nothing and disabled the control
C1_Witness ==
    /\ lastOp = "selectEnterpriseCustomer"
    /\ invoked["fetchEnterpriseCustomerCatalogs"] = 1
    /\ model["enterprise_customer"].id = Str(<<>>)
    /\ Len(pending) = 1
    /\ catalogDisabled

\* C2: from any state of the control, the success continuation of a fetch
\* leaves the catalog select enabled and the error continuation leaves it
\* disabled.
C2_SuccessEnablesErrorDisables ==
    [][/\ lastOp' = "fetchSuccess" => ~catalogDisabled'
       /\ lastOp' = "fetchError" => catalogDisabled']_vars

\* a success that re-enabled the control after the customer had been cleared
C2_Witness ==
    /\ lastOp = "fetchSuccess"
    /\ ~catalogDisabled
    /\ model["enterprise_customer"].id = Str(<<>>)

\* C3: whenever no fetch is in flight and the catalog select is enabled, the
\* catalogs the collection holds were fetched for the model's current
\* enterprise_customer.id.
C3_CatalogsBelongToSelectedCustomer ==
    (/\ pending = <<>>
     /\ ~catalogDisabled
     /\ catalogs.fetched
     /\ model["enterprise_customer"].t = "object")
        => catalogs.customer = model["enterprise_customer"].id

\* C4: after cancelButtonClicked every attribute present in _initAttributes
\* has its snapshot value again.
C4_CancelRestoresSnapshot ==
    lastOp = "cancelButtonClicked"
        => \A a \in Attrs : Present(initAttributes[a]) => model[a] = initAttributes[a]

\* a cancel that undid an edit of the customer and an edit of the coupon type
C4_Witness ==
    /\ lastOp = "cancelButtonClicked"
    /\ invoked["fetchEnterpriseCustomerCatalogs"] = 1
    /\ invoked["toggleCouponTypeField"] = 1
    /\ model["enterprise_customer"] = initAttributes["enterprise_customer"]

\* C5: fetchEnterpriseCustomerCatalogs never lets an exception reach its
\* caller, and a failed fetch only disables the catalog select: it issues no
\* further fetch and leaves the model's attributes alone.
C5_FetchFailureIsNonFatal ==
    [][/\ ~threw'
       /\ lastOp' = "fetchError"
            => /\ model' = model
               /\ Len(pending') = Len(pending) - 1
               /\ catalogDisabled']_vars

\* C6: the catalog binding's onSet maps '' and every non-string to null and a
\* non-empty string to itself, and is idempotent; its onGet maps
\* undefined/null to '' and passes every other value through.
C6_CatalogTransforms ==
    /\ bindFn = "enterprise_customer_catalog.onSet"
        => /\ (bindIn.t = "string" /\ bindIn.v # <<>>) => bindOut = bindIn
           /\ (bindIn.t # "string" \/ bindIn.v = <<>>) => bindOut = Null
           /\ CatalogOnSet(bindOut) = bindOut
    /\ bindFn = "enterprise_customer_catalog.onGet"
        => /\ bindIn.t \in {"undefined", "null"} => bindOut = Str(<<>>)
           /\ bindIn.t \notin {"undefined", "null"} => bindOut = bindIn

\* onSet applied to a non-empty array
C6_Witness ==
    /\ bindFn = "enterprise_customer_catalog.onSet"
    /\ bindIn.t = "array"
    /\ bindIn.v # <<>>
    /\ bindOut = Null

\* C7: the notify_email binding's onSet maps '' to null and returns every
\* other string unchanged.
C7_NotifyEmailOnSet ==
    bindFn = "notify_email.onSet"
        => /\ bindIn = Str(<<>>) => bindOut = Null
           /\ (bindIn.t = "string" /\ bindIn.v # <<>>) => bindOut = bindIn

\* onSet applied to the empty string
C7_Witness ==
    /\ bindFn = "notify_email.onSet"
    /\ bindIn = Str(<<>>)
    /\ bindOut = Null

\* C8: getEditableAttributes returns the same ordered list of 18 names in
\* every state and changes neither the model, the catalog collection nor the
\* catalog select.
C8_EditableAttributesFixed ==
    [][lastOp' = "getEditableAttributes"
        => /\ ret' = <<"benefit_value", "category", "end_date", "enterprise_customer",
                       "enterprise_customer_catalog", "notify_email",
                       "invoice_discount_type", "invoice_discount_value",
                       "invoice_number", "invoice_payment_date", "invoice_type",
                       "max_uses", "note", "price", "start_date",
                       "tax_deducted_source", "title", "email_domains">>
           /\ Len(ret') = 18
           /\ UNCHANGED <<model, catalogs, catalogDisabled>>]_vars

\* the list returned after edits and a fetch, with no customer object selected
C8_Witness ==
    /\ lastOp = "getEditableAttributes"
    /\ Len(ret) = 18
    /\ model # initAttributes
    /\ catalogs.fetched
    /\ model["enterprise_customer"].t # "object"

\* C9: no handler cancels or reorders an outstanding fetch: a handler only
\* ever adds to the outstanding fetches, and a continuation answers any one
\* of them, not only the oldest or the newest.
C9_NoFetchIsCancelled ==
    [][/\ lastOp' \notin {"fetchSuccess", "fetchError"} => IsPrefix(pending, pending')
       /\ lastOp' \in {"fetchSuccess", "fetchError"}
            => \E i \in DOMAIN pending : pending' = Without(pending, i)]_vars

\* the response for customer a was applied last, after the model had moved on
\* to customer b and b's own fetch had been answered
C9_Witness ==
    /\ lastOp = "fetchSuccess"
    /\ pending = <<>>
    /\ catalogs.customer = Str(<<"a">>)
    /\ model["enterprise_customer"].id = Str(<<"b">>)
    /\ ~catalogDisabled

\* C10: once the listeners are registered, a handler that changes the model's
\* enterprise_customer runs fetchEnterpriseCustomerCatalogs exactly once, and
\* a handler that changes only other attributes never runs it.
C10_FetchOncePerCustomerChange ==
    [][listening
        => /\ model'["enterprise_customer"] # model["enterprise_customer"]
                => invoked'["fetchEnterpriseCustomerCatalogs"] = 1
           /\ (/\ model' # model
               /\ model'["enterprise_customer"] = model["enterprise_customer"])
                => invoked'["fetchEnterpriseCustomerCatalogs"] = 0]_vars

\* a cancel that restored the customer, ran the fetch once and left two fetches
\* outstanding: the one for the discarded edit and the one for the restored
\* customer
C10_Witness ==
    /\ listening
    /\ lastOp = "cancelButtonClicked"
    /\ invoked["fetchEnterpriseCustomerCatalogs"] = 1
    /\ ~threw
    /\ Len(pending) = 2

====
